---- MODULE Spec2Model ----
(***************************************************************************)
(* Model of yaslapi, the Rust binding over the YASL runtime                *)
(* (src/src/lib.rs, src/src/aux.rs).                                       *)
(*                                                                         *)
(* A thread drives one State (handle).  The YASL runtime is reached only   *)
(* through its C functions; what a runtime call returns is drawn from the  *)
(* values its signature allows.                                            *)
(***************************************************************************)
EXTENDS Integers, Sequences, FiniteSets, TLC

(***************************************************************************)
(* Bounds                                                                  *)
(***************************************************************************)
MaxOps     == 3       \* host operations in the concurrent model
MaxGlobOps == 2       \* host operations per handle in the global-accessor model
MaxLifeOps == 5       \* host operations in the single-handle lifecycle model
MaxIdentOps == 1      \* host operations in the identifier model
MaxStack   == 1       \* depth of the value stack
MaxAddr    == 3       \* heap addresses available to CString buffers
MaxNameLen == 3       \* length of the names given to is_valid_identifier
MaxFns     == 1       \* functions in one table_set_functions call
MaxInternOps == 2     \* operations started in all when only interning

\* two handles, each driven by its own thread
Handles == {1, 2}
Addrs   == 1..MaxAddr
NULL    == 0
NoThread == 0

(***************************************************************************)
(* Names are sequences of ASCII codes.                                     *)
(***************************************************************************)
Alphabet == {0, 32, 36, 45, 49, 91, 95, 97, 120}
    \* NUL, ' ', '$', '-', '1', '[', '_', 'a', 'x'

RECURSIVE NamesOfLen(_)
NamesOfLen(n) ==
    IF n = 0 THEN {<< >>}
    ELSE {Append(s, c) : s \in NamesOfLen(n - 1), c \in Alphabet}

AllNames == UNION {NamesOfLen(n) : n \in 0..MaxNameLen}

\* "x", "a": the names interned concurrently
RegNames == {<<120>>, <<97>>}

\* "x", "1", "x\0": the names given to the global accessors
GlobNames == {<<120>>, <<49>>, <<120, 0>>}

\* "x": the function name given to table_set_functions
FnNames == {<<120>>}

\* regex class [A-z_$] of IDENTIFIER_REGEX: the range 'A'..'z', '_' and '$'
StartClass(c) == (c >= 65 /\ c <= 122) \/ c = 95 \/ c = 36

\* regex class [A-z0-9_$]
ContClass(c) == StartClass(c) \/ (c >= 48 /\ c <= 57)

\* Regex::is_match of [A-z_$][A-z0-9_$]* : some substring name[i..j] matches
is_valid_identifier(name) ==
    \E i \in 1..Len(name) : \E j \in i..Len(name) :
        /\ StartClass(name[i])
        /\ \A k \in (i + 1)..j : ContClass(name[k])

\* CString::new(name): fails on an interior NUL byte
HasNul(name) == \E i \in 1..Len(name) : name[i] = 0

(***************************************************************************)
(* The identifier grammar of the specification: ASCII letter, '_' or '$'   *)
(* first, then ASCII letters, digits, '_' or '$', over the whole name.     *)
(***************************************************************************)
IsLetter(c) == (c >= 65 /\ c <= 90) \/ (c >= 97 /\ c <= 122)
IsDigit(c)  == c >= 48 /\ c <= 57
MatchesGrammar(name) ==
    /\ Len(name) >= 1
    /\ (IsLetter(name[1]) \/ name[1] = 95 \/ name[1] = 36)
    /\ \A k \in 2..Len(name) :
          IsLetter(name[k]) \/ IsDigit(name[k]) \/ name[k] = 95 \/ name[k] = 36

(***************************************************************************)
(* Runtime status codes (StateSuccess / StateError) and stack values.      *)
(***************************************************************************)
SuccessCodes == {"YASL_SUCCESS", "YASL_MODULE_SUCCESS"}
CallCodes    == {"YASL_SUCCESS", "YASL_ERROR"}

\* state_result: a success code gives Ok, a failure code gives Err
state_result(r) == IF r \in SuccessCodes THEN "Ok" ELSE "Err"

IntVal(i) == [type |-> "Int", v |-> i]
CFnVal    == [type |-> "CFn", v |-> 0]
UndefVal  == [type |-> "Undef", v |-> 0]
PushVals  == {IntVal(0), IntVal(1), CFnVal}

VARIABLES
    hs,        \* hs[h]: the State value of handle h: scope status and raw pointer
    inst,      \* inst[h]: the runtime instance allocated for h: times released,
               \* calls made after release, completed runs of its program,
               \* userdata objects created with a destructor, destructor calls
    stack,     \* stack[h]: the instance's value stack, top last
    globals,   \* globals[h]: the instance's global bindings, name -> value
    registry,  \* LIFETIME_CSTRINGS: set of [text, addr]
    heap,      \* heap[a]: "live" or "freed", for each address handed out so far
    handed,    \* name pointers given to the runtime: [h, text, addr, by]
    lock,      \* holder of the LIFETIME_CSTRINGS mutex, or NoThread
    pc,        \* pc[h]: position of the thread driving h
    loc,       \* loc[h]: locals of the operation in progress
    res,       \* res[h]: outcome of the last completed operation
    nops,      \* nops[h]: operations started so far
    ub,        \* undefined behaviour has been executed
    halted     \* the process has aborted

vars == <<hs, inst, stack, globals, registry, heap, handed, lock,
          pc, loc, res, nops, ub, halted>>

NoLoc == [op |-> "none", name |-> << >>, var_name |-> NULL, cstr |-> NULL,
          rc |-> "none", dup |-> FALSE, old |-> UndefVal, fns |-> << >>,
          ptrs |-> << >>]
NoRes == [op |-> "none", name |-> << >>, val |-> "none", rc |-> "none",
          dup |-> FALSE, old |-> UndefVal]

Init ==
    /\ hs = [h \in Handles |-> [st |-> "unborn", ptr |-> NULL]]
    /\ inst = [h \in Handles |-> [dels |-> 0, late |-> 0, runs |-> 0, ud |-> 0, dtor |-> 0]]
    /\ stack = [h \in Handles |-> << >>]
    /\ globals = [h \in Handles |-> << >>]
    /\ registry = {}
    /\ heap = << >>
    /\ handed = {}
    /\ lock = NoThread
    /\ pc = [h \in Handles |-> "idle"]
    /\ loc = [h \in Handles |-> NoLoc]
    /\ res = [h \in Handles |-> NoRes]
    /\ nops = [h \in Handles |-> 0]
    /\ ub = FALSE
    /\ halted = FALSE


(***************************************************************************)
(* Helpers                                                                 *)
(***************************************************************************)
Top(s)    == s[Len(s)]
PopSeq(s) == SubSeq(s, 1, Len(s) - 1)
Bound(h, name) == name \in DOMAIN globals[h]
Bind(g, name, v) ==
    [n \in (DOMAIN g) \cup {name} |-> IF n = name THEN v ELSE g[n]]

\* the thread driving h is between operations, inside the scope of its State
Ready(h) == ~halted /\ hs[h].st = "live" /\ pc[h] = "idle"

\* a runtime call on the State's raw pointer: one issued after the instance
\* was released is counted
Touch(h) ==
    [inst EXCEPT ![h].late = IF inst[h].dels > 0 THEN @ + 1 ELSE @]

\* ... and is undefined behaviour when the pointer is null or released
Stale(h) == hs[h].ptr = NULL \/ inst[h].dels > 0

Outcome(op, name, val, rc, dup, old, h) ==
    [op |-> op, name |-> name, val |-> val, rc |-> rc, dup |-> dup,
     old |-> old]

(***************************************************************************)
(* Construction and teardown                                               *)
(***************************************************************************)
\* State::from_path: NonNull::new(ptr).map(..), None on a null pointer
FromPath(h, p) ==
    /\ ~halted /\ hs[h].st = "unborn"
    /\ hs' = [hs EXCEPT ![h] = IF p = NULL THEN [st |-> "none", ptr |-> NULL]
                                            ELSE [st |-> "live", ptr |-> p]]
    /\ UNCHANGED <<inst, stack, globals, registry, heap, handed, lock,
                   pc, loc, res, nops, ub, halted>>

\* what NonNull::new_unchecked does with the pointer YASL_newstate_bb
\* returned: a null pointer is undefined behaviour, which a build either
\* stores unchecked or catches with its debug precondition check
NewUnchecked(h, p) ==
    \/ /\ p # NULL
       /\ hs' = [hs EXCEPT ![h] = [st |-> "live", ptr |-> p]]
       /\ UNCHANGED <<ub, halted>>
    \/ /\ p = NULL
       /\ hs' = [hs EXCEPT ![h] = [st |-> "live", ptr |-> NULL]]
       /\ ub' = TRUE
       /\ UNCHANGED halted
    \/ /\ p = NULL
       /\ halted' = TRUE
       /\ UNCHANGED <<hs, ub>>

\* State::from_source (and Default::default, which is from_source(""))
FromSource(h, p) ==
    /\ ~halted /\ hs[h].st = "unborn"
    /\ NewUnchecked(h, p)
    /\ UNCHANGED <<inst, stack, globals, registry, heap, handed, lock,
                   pc, loc, res, nops>>

\* how many destructor calls one YASL_delstate makes: releasing the instance
\* frees its userdata objects, each through its destructor; releasing an
\* instance that was already released is undefined behaviour, which may run
\* the destructors of the freed objects again or not
Destroyed(h) ==
    IF hs[h].ptr = NULL THEN {0}
    ELSE IF inst[h].dels > 0 THEN {0, inst[h].ud}
    ELSE {inst[h].ud}

\* Drop for State: YASL_delstate on the raw pointer
DelState(h) ==
    /\ \E n \in Destroyed(h) :
          inst' = [inst EXCEPT
                     ![h].dels = IF hs[h].ptr = NULL THEN @ ELSE @ + 1,
                     ![h].late = IF inst[h].dels > 0 THEN @ + 1 ELSE @,
                     ![h].dtor = @ + n]
    /\ ub' = (ub \/ Stale(h))

\* the owning State goes out of scope
Drop(h) ==
    /\ Ready(h)
    /\ DelState(h)
    /\ hs' = [hs EXCEPT ![h].st = "dropped"]
    /\ UNCHANGED <<stack, globals, registry, heap, handed, lock,
                   pc, loc, res, nops, halted>>

\* after undefined behaviour the process may abort at any point
UBCrash ==
    /\ ub /\ ~halted
    /\ halted' = TRUE
    /\ UNCHANGED <<hs, inst, stack, globals, registry, heap, handed, lock,
                   pc, loc, res, nops, ub>>

(***************************************************************************)
(* Stack                                                                   *)
(***************************************************************************)
\* push_int, push_cfunction
Push(h, v, max) ==
    /\ Ready(h) /\ nops[h] < max
    /\ Len(stack[h]) < MaxStack
    /\ stack' = [stack EXCEPT ![h] = Append(@, v)]
    /\ inst' = Touch(h)
    /\ ub' = (ub \/ Stale(h))
    /\ nops' = [nops EXCEPT ![h] = @ + 1]
    /\ res' = [res EXCEPT ![h] = Outcome("push", << >>, "unit", "none", FALSE, UndefVal, h)]
    /\ UNCHANGED <<hs, globals, registry, heap, handed, lock, pc, loc, halted>>

\* push_userdata(data, tag, Some(destructor)): the runtime creates a userdata
\* object that owns data and will pass it to destructor when it frees it
PushUserdata(h, max) ==
    /\ Ready(h) /\ nops[h] < max
    /\ Len(stack[h]) < MaxStack
    /\ stack' = [stack EXCEPT ![h] =
          Append(@, [type |-> "UserData", v |-> <<1, "quaternion">>])]
    /\ inst' = [Touch(h) EXCEPT ![h].ud = IF Stale(h) THEN @ ELSE @ + 1]
    /\ ub' = (ub \/ Stale(h))
    /\ nops' = [nops EXCEPT ![h] = @ + 1]
    /\ res' = [res EXCEPT ![h] = Outcome("push", << >>, "unit", "none", FALSE, UndefVal, h)]
    /\ UNCHANGED <<hs, globals, registry, heap, handed, lock, pc, loc, halted>>

\* pop
Pop(h, max) ==
    /\ Ready(h) /\ nops[h] < max
    /\ Len(stack[h]) > 0
    /\ stack' = [stack EXCEPT ![h] = PopSeq(@)]
    /\ inst' = Touch(h)
    /\ ub' = (ub \/ Stale(h))
    /\ nops' = [nops EXCEPT ![h] = @ + 1]
    /\ res' = [res EXCEPT ![h] = Outcome("pop", << >>, "unit", "none", FALSE, UndefVal, h)]
    /\ UNCHANGED <<hs, globals, registry, heap, handed, lock, pc, loc, halted>>


(***************************************************************************)
(* Operations that only forward one runtime call                           *)
(***************************************************************************)
\* State::compile: state_result(YASL_compile(..))
Compile(h, rc, max) ==
    /\ Ready(h) /\ nops[h] < max
    /\ inst' = Touch(h)
    /\ ub' = (ub \/ Stale(h))
    /\ nops' = [nops EXCEPT ![h] = @ + 1]
    /\ res' = [res EXCEPT ![h] =
                 Outcome("compile", << >>, state_result(rc), rc, FALSE, UndefVal, h)]
    /\ UNCHANGED <<hs, stack, globals, registry, heap, handed, lock, pc, loc, halted>>

\* State::reset_from_source: YASL_resetstate_bb(..); its status is dropped
\* and the function returns unit.  The instance, its globals and its stack
\* are kept.
ResetFromSource(h, rc, max) ==
    /\ Ready(h) /\ nops[h] < max
    /\ inst' = Touch(h)
    /\ ub' = (ub \/ Stale(h))
    /\ nops' = [nops EXCEPT ![h] = @ + 1]
    /\ res' = [res EXCEPT ![h] =
                 Outcome("reset_from_source", << >>, "unit", rc, FALSE, UndefVal, h)]
    /\ UNCHANGED <<hs, stack, globals, registry, heap, handed, lock, pc, loc, halted>>

\* State::reset_from_script: state_result(YASL_resetstate(..))
ResetFromScript(h, rc, max) ==
    /\ Ready(h) /\ nops[h] < max
    /\ inst' = Touch(h)
    /\ ub' = (ub \/ Stale(h))
    /\ nops' = [nops EXCEPT ![h] = @ + 1]
    /\ res' = [res EXCEPT ![h] =
                 Outcome("reset_from_script", << >>, state_result(rc), rc, FALSE, UndefVal, h)]
    /\ UNCHANGED <<hs, stack, globals, registry, heap, handed, lock, pc, loc, halted>>

\* mutant: the global is bound but the top of the stack is not consumed
RtInitGlobalKeep(h, name, rc) ==
    IF rc \in SuccessCodes
    THEN /\ globals' = [globals EXCEPT ![h] = Bind(@, name, Top(stack[h]))]
         /\ UNCHANGED stack
    ELSE UNCHANGED <<globals, stack>>

\* YASLX_initglobal as the binding's documentation describes it: on success
\* the top of the stack becomes the value of the global and is popped
RtInitGlobal(h, name, rc) ==
    IF rc \in SuccessCodes
    THEN /\ globals' = [globals EXCEPT ![h] = Bind(@, name, Top(stack[h]))]
         /\ stack' = [stack EXCEPT ![h] = PopSeq(@)]
    ELSE UNCHANGED <<globals, stack>>

\* YASL_declglobal: on success the global exists, with value undef
RtDeclGlobal(h, name, rc) ==
    IF rc \in SuccessCodes
    THEN /\ globals' = [globals EXCEPT ![h] = Bind(@, name, UndefVal)]
         /\ UNCHANGED stack
    ELSE UNCHANGED <<globals, stack>>

OldValue(h, name) == IF Bound(h, name) THEN globals[h][name] ELSE UndefVal

\* State::init_global(name: &'static CStr)
InitGlobal(h, name, rc, max) ==
    /\ Ready(h) /\ nops[h] < max
    /\ nops' = [nops EXCEPT ![h] = @ + 1]
    /\ \/ /\ ~is_valid_identifier(name)
          /\ res' = [res EXCEPT ![h] =
                Outcome("init_global", name, "InvalidIdentifier", "none",
                        Bound(h, name), OldValue(h, name), h)]
          /\ UNCHANGED <<inst, ub, globals, stack>>
       \/ /\ is_valid_identifier(name)
          /\ Len(stack[h]) > 0
          /\ RtInitGlobal(h, name, rc)
          /\ inst' = Touch(h)
          /\ ub' = (ub \/ Stale(h))
          /\ res' = [res EXCEPT ![h] =
                Outcome("init_global", name, "Ok", rc,
                        Bound(h, name), OldValue(h, name), h)]
    /\ UNCHANGED <<hs, registry, heap, handed, lock, pc, loc, halted>>

(***************************************************************************)
(* execute / function_call: the runtime runs, and may invoke host callables*)
(***************************************************************************)
\* State::execute calls YASL_execute
ExecuteCall(h, max) ==
    /\ Ready(h) /\ nops[h] < max
    /\ pc' = [pc EXCEPT ![h] = "run"]
    /\ loc' = [loc EXCEPT ![h] = [NoLoc EXCEPT !.op = "execute"]]
    /\ inst' = Touch(h)
    /\ ub' = (ub \/ Stale(h))
    /\ nops' = [nops EXCEPT ![h] = @ + 1]
    /\ UNCHANGED <<hs, stack, globals, registry, heap, handed, lock, res, halted>>

\* State::function_call(0) calls YASL_functioncall on the function on top
FunctionCallCall(h, max) ==
    /\ Ready(h) /\ nops[h] < max
    /\ Len(stack[h]) > 0 /\ Top(stack[h]).type = "CFn"
    /\ pc' = [pc EXCEPT ![h] = "run"]
    /\ loc' = [loc EXCEPT ![h] = [NoLoc EXCEPT !.op = "function_call"]]
    /\ inst' = Touch(h)
    /\ ub' = (ub \/ Stale(h))
    /\ nops' = [nops EXCEPT ![h] = @ + 1]
    /\ UNCHANGED <<hs, stack, globals, registry, heap, handed, lock, res, halted>>

\* a host callable the running code can reach: the function being called,
\* or a global bound to a C function
Callable(h) ==
    \/ loc[h].op = "function_call"
    \/ \E n \in DOMAIN globals[h] : globals[h][n].type = "CFn"

\* the runtime invokes a host callable (new_cfn, quat_add): the raw pointer
\* is wrapped in a State: `let mut state: State = state.try_into().expect(..)`
CallbackEnter(h, max) ==
    /\ ~halted /\ pc[h] = "run" /\ nops[h] < max
    /\ hs[h].ptr # NULL
    /\ Callable(h)
    /\ pc' = [pc EXCEPT ![h] = "callback"]
    /\ nops' = [nops EXCEPT ![h] = @ + 1]
    /\ UNCHANGED <<hs, inst, stack, globals, registry, heap, handed, lock,
                   loc, res, ub, halted>>

\* what leaving the callable's scope does to the State it wrapped around the
\* raw pointer: State has one Drop, which releases the instance
ViewDrop(h) == DelState(h)

\* the callable returns; its local State goes out of scope
CallbackReturn(h) ==
    /\ ~halted /\ pc[h] = "callback"
    /\ ViewDrop(h)
    /\ pc' = [pc EXCEPT ![h] = "run"]
    /\ UNCHANGED <<hs, stack, globals, registry, heap, handed, lock,
                   loc, res, nops, halted>>

\* YASL_execute returns: state_result(rc)
ExecuteReturn(h, rc) ==
    /\ ~halted /\ pc[h] = "run" /\ loc[h].op = "execute"
    /\ pc' = [pc EXCEPT ![h] = "idle"]
    /\ loc' = [loc EXCEPT ![h] = NoLoc]
    /\ inst' = Touch(h)
    /\ ub' = (ub \/ Stale(h))
    /\ res' = [res EXCEPT ![h] =
                 Outcome("execute", << >>, state_result(rc), rc, FALSE, UndefVal, h)]
    /\ UNCHANGED <<hs, stack, globals, registry, heap, handed, lock, nops, halted>>

\* YASL_functioncall returns an int, which function_call casts to usize and
\* returns as the number of results
FunctionCallReturn(h, rc) ==
    /\ ~halted /\ pc[h] = "run" /\ loc[h].op = "function_call"
    /\ pc' = [pc EXCEPT ![h] = "idle"]
    /\ loc' = [loc EXCEPT ![h] = NoLoc]
    /\ stack' = [stack EXCEPT ![h] = PopSeq(@)]
    /\ inst' = Touch(h)
    /\ ub' = (ub \/ Stale(h))
    /\ res' = [res EXCEPT ![h] =
                 Outcome("function_call", << >>, "usize", rc, FALSE, UndefVal, h)]
    /\ UNCHANGED <<hs, globals, registry, heap, handed, lock, nops, halted>>


(***************************************************************************)
(* The name registry LIFETIME_CSTRINGS: Mutex<HashSet<CString>>            *)
(***************************************************************************)
\* mutant: the registry is used without taking the mutex
LockNotTaken == TRUE

\* Mutex::lock returns once no thread holds the mutex
LockFree == lock = NoThread

\* HashSet::get(&var_name): the buffer of the stored CString with this text
RegistryGet(text) ==
    IF \E e \in registry : e.text = text
    THEN (CHOOSE e \in registry : e.text = text).addr
    ELSE NULL

\* HashSet::insert: a set that already holds an equal CString is not changed
RegistryInsert(text, addr) ==
    IF \E e \in registry : e.text = text
    THEN registry
    ELSE registry \cup {[text |-> text, addr |-> addr]}

\* The heap of CString buffers.  A new buffer gets any address not in use:
\* one that was freed, or one never handed out (these are interchangeable,
\* so the lowest stands for them).
IsLive(hp, a) == a \in DOMAIN hp /\ hp[a] = "live"
Alloc(hp, a) == [x \in (DOMAIN hp) \cup {a} |-> IF x = a THEN "live" ELSE hp[x]]
Free(hp, a)  == [x \in (DOMAIN hp) \cup {a} |-> IF x = a THEN "freed" ELSE hp[x]]
Unused == Addrs \ DOMAIN heap
FreeAddrs ==
    {a \in DOMAIN heap : heap[a] = "freed"} \cup
    {a \in Unused : \A b \in Unused : a <= b}

DeclareOps == {"declare_global", "init_global_slice"}

\* mutant: the name is checked after the runtime call has declared it
DeclareInvalidLate(h, name, op, max) ==
    /\ Ready(h) /\ nops[h] < max
    /\ ~is_valid_identifier(name)
    /\ nops' = [nops EXCEPT ![h] = @ + 1]
    /\ globals' = [globals EXCEPT ![h] = Bind(@, name, UndefVal)]
    /\ res' = [res EXCEPT ![h] =
          Outcome(op, name, "InvalidIdentifier", "none",
                  Bound(h, name), OldValue(h, name), h)]
    /\ UNCHANGED <<hs, inst, stack, registry, heap, handed, lock,
                   pc, loc, ub, halted>>

\* declare_global / init_global_slice: `if !is_valid_identifier(name)`
DeclareInvalid(h, name, op, max) ==
    /\ Ready(h) /\ nops[h] < max
    /\ ~is_valid_identifier(name)
    /\ nops' = [nops EXCEPT ![h] = @ + 1]
    /\ res' = [res EXCEPT ![h] =
          Outcome(op, name, "InvalidIdentifier", "none",
                  Bound(h, name), OldValue(h, name), h)]
    /\ UNCHANGED <<hs, inst, stack, globals, registry, heap, handed, lock,
                   pc, loc, ub, halted>>

\* CString::new(name) on a name with an interior NUL byte
DeclareNul(h, name, op, max) ==
    /\ Ready(h) /\ nops[h] < max
    /\ is_valid_identifier(name) /\ HasNul(name)
    /\ nops' = [nops EXCEPT ![h] = @ + 1]
    /\ \/ \* init_global_slice: .map_err(|_| InvalidIdentifier)?
          /\ op = "init_global_slice"
          /\ res' = [res EXCEPT ![h] =
                Outcome(op, name, "InvalidIdentifier", "none",
                        Bound(h, name), OldValue(h, name), h)]
          /\ UNCHANGED pc
       \/ \* declare_global: .unwrap() panics
          /\ op = "declare_global"
          /\ res' = [res EXCEPT ![h] =
                Outcome(op, name, "panic", "none",
                        Bound(h, name), OldValue(h, name), h)]
          /\ pc' = [pc EXCEPT ![h] = "panicked"]
    /\ UNCHANGED <<hs, inst, stack, globals, registry, heap, handed, lock,
                   loc, ub, halted>>

\* mutant: the new copy's pointer is used even when the set holds the name
NamePointerFresh(cstr, var_name) == var_name

\* cstr.unwrap_or(&var_name).as_ptr(), with cstr what HashSet::get returned
NamePointer(cstr, var_name) == IF cstr # NULL THEN cstr ELSE var_name

\* a valid name, up to the runtime call:
\*   let var_name = CString::new(name).unwrap();
\*   let mut lifetime_strings = LIFETIME_CSTRINGS.lock().unwrap();
\*   let cstr = lifetime_strings.get(&var_name);
\*   YASL_declglobal(state, ptr) / YASLX_initglobal(state, ptr)
\* Everything before the lock is local to the thread, so the step waits for
\* the mutex as a whole.
DeclareCall(h, name, op, rc, max) ==
    /\ Ready(h) /\ nops[h] < max
    /\ is_valid_identifier(name) /\ ~HasNul(name)
    /\ op = "init_global_slice" => Len(stack[h]) > 0
    /\ LockFree
    /\ lock' = h
    /\ nops' = [nops EXCEPT ![h] = @ + 1]
    /\ \E a \in FreeAddrs :
         LET cstr == RegistryGet(name) IN
         /\ heap' = Alloc(heap, a)
         /\ loc' = [loc EXCEPT ![h] =
               [NoLoc EXCEPT !.op = op, !.name = name, !.var_name = a,
                             !.cstr = cstr, !.rc = rc,
                             !.dup = Bound(h, name), !.old = OldValue(h, name)]]
         /\ handed' = handed \cup
               {[h |-> h, text |-> name, addr |-> NamePointer(cstr, a), by |-> op]}
         /\ ub' = (ub \/ Stale(h) \/ ~IsLive(heap', NamePointer(cstr, a)))
    /\ IF op = "declare_global"
       THEN RtDeclGlobal(h, name, rc)
       ELSE RtInitGlobal(h, name, rc)
    /\ inst' = Touch(h)
    /\ pc' = [pc EXCEPT ![h] = "insert"]
    /\ UNCHANGED <<hs, registry, res, halted>>

\* mutant: the operation returns without dropping the guard
DeclareReturnHolding(h) ==
    /\ ~halted /\ pc[h] = "insert"
    /\ res' = [res EXCEPT ![h] =
          [op |-> loc[h].op, name |-> loc[h].name, val |-> "Ok",
           rc |-> loc[h].rc, dup |-> loc[h].dup, old |-> loc[h].old]]
    /\ loc' = [loc EXCEPT ![h] = NoLoc]
    /\ pc' = [pc EXCEPT ![h] = "idle"]
    /\ UNCHANGED <<hs, inst, stack, globals, registry, heap, handed, lock,
                   nops, ub, halted>>

\* if cstr.is_none() { lifetime_strings.insert(var_name); }  Ok(())
\* The guard is dropped on return, which releases the mutex; a CString that
\* was not moved into the set is dropped, which frees its buffer.
DeclareReturn(h) ==
    /\ ~halted /\ pc[h] = "insert"
    /\ registry' = IF loc[h].cstr = NULL
                   THEN RegistryInsert(loc[h].name, loc[h].var_name)
                   ELSE registry
    /\ heap' = IF [text |-> loc[h].name, addr |-> loc[h].var_name] \in registry'
               THEN heap ELSE Free(heap, loc[h].var_name)
    /\ lock' = IF lock = h THEN NoThread ELSE lock
    /\ res' = [res EXCEPT ![h] =
          [op |-> loc[h].op, name |-> loc[h].name, val |-> "Ok",
           rc |-> loc[h].rc, dup |-> loc[h].dup, old |-> loc[h].old]]
    /\ loc' = [loc EXCEPT ![h] = NoLoc]
    /\ pc' = [pc EXCEPT ![h] = "idle"]
    /\ UNCHANGED <<hs, inst, stack, globals, handed, nops, ub, halted>>

(***************************************************************************)
(* table_set_functions                                                     *)
(***************************************************************************)
FnLists == UNION {[1..n -> FnNames] : n \in 1..MaxFns}

\* let mut yasl_fns = Vec::with_capacity(functions.len() + 1);
TsfBegin(h, fns, max) ==
    /\ Ready(h) /\ nops[h] < max
    /\ nops' = [nops EXCEPT ![h] = @ + 1]
    /\ loc' = [loc EXCEPT ![h] =
          [NoLoc EXCEPT !.op = "table_set_functions", !.fns = fns]]
    /\ pc' = [pc EXCEPT ![h] = "tsf"]
    /\ UNCHANGED <<hs, inst, stack, globals, registry, heap, handed, lock,
                   res, ub, halted>>

\* one iteration of `for f in functions`: the pointer of a new CString goes
\* into yasl_fns, then LIFETIME_CSTRINGS.lock().unwrap().insert(name)
TsfIntern(h) ==
    /\ ~halted /\ pc[h] = "tsf"
    /\ Len(loc[h].ptrs) < Len(loc[h].fns)
    /\ LockFree
    /\ \E a \in FreeAddrs :
         LET name == loc[h].fns[Len(loc[h].ptrs) + 1] IN
         /\ loc' = [loc EXCEPT ![h].ptrs = Append(@, a)]
         /\ registry' = RegistryInsert(name, a)
         /\ heap' = IF registry' = registry THEN Free(heap, a) ELSE Alloc(heap, a)
    /\ UNCHANGED <<hs, inst, stack, globals, handed, lock, pc, res, nops,
                   ub, halted>>

\* YASLX_tablesetfunctions(state, yasl_fns.as_mut_ptr())
TsfCall(h) ==
    /\ ~halted /\ pc[h] = "tsf"
    /\ Len(loc[h].ptrs) = Len(loc[h].fns)
    /\ handed' = handed \cup
          {[h |-> h, text |-> loc[h].fns[i], addr |-> loc[h].ptrs[i],
            by |-> "table_set_functions"] : i \in 1..Len(loc[h].fns)}
    /\ inst' = Touch(h)
    /\ ub' = (ub \/ Stale(h) \/
              \E i \in 1..Len(loc[h].fns) :
                 [text |-> loc[h].fns[i], addr |-> loc[h].ptrs[i]] \notin registry)
    /\ res' = [res EXCEPT ![h] =
          Outcome("table_set_functions", << >>, "unit", "none", FALSE, UndefVal, h)]
    /\ loc' = [loc EXCEPT ![h] = NoLoc]
    /\ pc' = [pc EXCEPT ![h] = "idle"]
    /\ UNCHANGED <<hs, stack, globals, registry, heap, lock, nops, halted>>

(***************************************************************************)
(* load_global_slice / set_global_slice                                    *)
(***************************************************************************)
\* YASL_loadglobal: pushes the global's value; YASL_ERROR if there is none
LoadGlobalSlice(h, name, max) ==
    /\ Ready(h) /\ nops[h] < max
    /\ nops' = [nops EXCEPT ![h] = @ + 1]
    /\ \/ /\ HasNul(name)
          /\ res' = [res EXCEPT ![h] =
                Outcome("load_global_slice", name, "panic", "none",
                        Bound(h, name), OldValue(h, name), h)]
          /\ pc' = [pc EXCEPT ![h] = "panicked"]
          /\ UNCHANGED <<stack, inst, ub>>
       \/ /\ ~HasNul(name) /\ Bound(h, name)
          /\ Len(stack[h]) < MaxStack
          /\ stack' = [stack EXCEPT ![h] = Append(@, globals[h][name])]
          /\ res' = [res EXCEPT ![h] =
                Outcome("load_global_slice", name, state_result("YASL_SUCCESS"),
                        "YASL_SUCCESS", TRUE, OldValue(h, name), h)]
          /\ inst' = Touch(h)
          /\ ub' = (ub \/ Stale(h))
          /\ UNCHANGED pc
       \/ /\ ~HasNul(name) /\ ~Bound(h, name)
          /\ res' = [res EXCEPT ![h] =
                Outcome("load_global_slice", name, state_result("YASL_ERROR"),
                        "YASL_ERROR", FALSE, UndefVal, h)]
          /\ inst' = Touch(h)
          /\ ub' = (ub \/ Stale(h))
          /\ UNCHANGED <<stack, pc>>
    /\ UNCHANGED <<hs, globals, registry, heap, handed, lock, loc, halted>>

\* YASL_setglobal: pops the top into the global; YASL_ERROR if there is none
SetGlobalSlice(h, name, max) ==
    /\ Ready(h) /\ nops[h] < max
    /\ Len(stack[h]) > 0
    /\ nops' = [nops EXCEPT ![h] = @ + 1]
    /\ \/ /\ HasNul(name)
          /\ res' = [res EXCEPT ![h] =
                Outcome("set_global_slice", name, "panic", "none",
                        Bound(h, name), OldValue(h, name), h)]
          /\ pc' = [pc EXCEPT ![h] = "panicked"]
          /\ UNCHANGED <<stack, globals, inst, ub>>
       \/ /\ ~HasNul(name) /\ Bound(h, name)
          /\ globals' = [globals EXCEPT ![h] = Bind(@, name, Top(stack[h]))]
          /\ stack' = [stack EXCEPT ![h] = PopSeq(@)]
          /\ res' = [res EXCEPT ![h] =
                Outcome("set_global_slice", name, state_result("YASL_SUCCESS"),
                        "YASL_SUCCESS", TRUE, OldValue(h, name), h)]
          /\ inst' = Touch(h)
          /\ ub' = (ub \/ Stale(h))
          /\ UNCHANGED pc
       \/ /\ ~HasNul(name) /\ ~Bound(h, name)
          /\ res' = [res EXCEPT ![h] =
                Outcome("set_global_slice", name, state_result("YASL_ERROR"),
                        "YASL_ERROR", FALSE, UndefVal, h)]
          /\ inst' = Touch(h)
          /\ ub' = (ub \/ Stale(h))
          /\ UNCHANGED <<stack, globals, pc>>
    /\ UNCHANGED <<hs, registry, heap, handed, lock, loc, halted>>

(***************************************************************************)
(* Panics: the thread stops; its stack either unwinds, which drops the     *)
(* State it owns, or the process aborts.                                   *)
(***************************************************************************)
Unwind(h) ==
    /\ ~halted /\ pc[h] = "panicked" /\ hs[h].st = "live"
    /\ DelState(h)
    /\ hs' = [hs EXCEPT ![h].st = "dropped"]
    /\ UNCHANGED <<stack, globals, registry, heap, handed, lock,
                   pc, loc, res, nops, halted>>

PanicAbort(h) ==
    /\ ~halted /\ pc[h] = "panicked" /\ hs[h].st = "live"
    /\ halted' = TRUE
    /\ UNCHANGED <<hs, inst, stack, globals, registry, heap, handed, lock,
                   pc, loc, res, nops, ub>>


(***************************************************************************)
(* Specifications                                                          *)
(***************************************************************************)
\* both handles constructed, nothing done yet
InitLive ==
    /\ hs = [h \in Handles |-> [st |-> "live", ptr |-> h]]
    /\ inst = [h \in Handles |-> [dels |-> 0, late |-> 0, runs |-> 0, ud |-> 0, dtor |-> 0]]
    /\ stack = [h \in Handles |-> << >>]
    /\ globals = [h \in Handles |-> << >>]
    /\ registry = {}
    /\ heap = << >>
    /\ handed = {}
    /\ lock = NoThread
    /\ pc = [h \in Handles |-> "idle"]
    /\ loc = [h \in Handles |-> NoLoc]
    /\ res = [h \in Handles |-> NoRes]
    /\ nops = [h \in Handles |-> 0]
    /\ ub = FALSE
    /\ halted = FALSE

\* Two threads, each with its own handle, interning names in the registry;
\* MaxOps operations are started in all.
Quota(h) == nops[h] + (MaxOps - (nops[1] + nops[2]))

Next ==
    \/ \E h \in Handles : Push(h, IntVal(0), Quota(h))
    \/ \E h \in Handles, n \in RegNames, op \in DeclareOps, rc \in CallCodes :
          DeclareCall(h, n, op, rc, Quota(h))
    \/ \E h \in Handles : DeclareReturn(h)
    \/ \E h \in Handles, fns \in FnLists : TsfBegin(h, fns, Quota(h))
    \/ \E h \in Handles : TsfIntern(h)
    \/ \E h \in Handles : TsfCall(h)
    \/ UBCrash

Spec == InitLive /\ [][Next]_vars

\* The two threads interning only, MaxInternOps operations in all, under a
\* scheduler that lets every thread that can take a step of the operation
\* it is in take it eventually.
InternQuota(h) == nops[h] + (MaxInternOps - (nops[1] + nops[2]))

NextIntern ==
    \/ \E h \in Handles, n \in RegNames, op \in DeclareOps, rc \in CallCodes :
          DeclareCall(h, n, op, rc, InternQuota(h))
    \/ \E h \in Handles : DeclareReturn(h)
    \/ \E h \in Handles, fns \in FnLists : TsfBegin(h, fns, InternQuota(h))
    \/ \E h \in Handles : TsfIntern(h)
    \/ \E h \in Handles : TsfCall(h)
    \/ UBCrash

SpecFair ==
    /\ InitLive /\ [][NextIntern]_vars
    /\ \A h \in Handles :
          /\ WF_vars(DeclareReturn(h))
          /\ WF_vars(TsfIntern(h))
          /\ WF_vars(TsfCall(h))

\* Two handles driven one operation at a time: the global accessors.
NextGlobals ==
    \/ \E h \in Handles : Push(h, IntVal(1), MaxGlobOps)
    \/ \E h \in Handles, n \in GlobNames, op \in DeclareOps :
          \/ DeclareInvalid(h, n, op, MaxGlobOps)
          \/ DeclareNul(h, n, op, MaxGlobOps)
    \/ \E h \in Handles, n \in GlobNames, op \in DeclareOps, rc \in CallCodes :
          DeclareCall(h, n, op, rc, MaxGlobOps)
    \/ \E h \in Handles : DeclareReturn(h)
    \/ \E h \in Handles, n \in GlobNames \ {<<120, 0>>}, rc \in CallCodes :
          InitGlobal(h, n, rc, MaxGlobOps)
    \/ \E h \in Handles, n \in GlobNames : LoadGlobalSlice(h, n, MaxGlobOps)
    \/ \E h \in Handles, n \in GlobNames : SetGlobalSlice(h, n, MaxGlobOps)
    \/ \E h \in Handles : Unwind(h)
    \/ \E h \in Handles : PanicAbort(h)

SpecGlobals == InitLive /\ [][NextGlobals]_vars

\* One handle from construction to teardown.
LifeNames == {<<120>>, <<49>>}

NextLife ==
    \/ \E p \in {NULL, 1} : FromSource(1, p)
    \/ \E p \in {NULL, 1} : FromPath(1, p)
    \/ Drop(1)
    \/ \E v \in PushVals : Push(1, v, MaxLifeOps)
    \/ PushUserdata(1, MaxLifeOps)
    \/ Pop(1, MaxLifeOps)
    \/ \E rc \in CallCodes : Compile(1, rc, MaxLifeOps)
    \/ \E rc \in CallCodes : ResetFromSource(1, rc, MaxLifeOps)
    \/ \E rc \in CallCodes : ResetFromScript(1, rc, MaxLifeOps)
    \/ \E n \in LifeNames, rc \in CallCodes : InitGlobal(1, n, rc, MaxLifeOps)
    \/ ExecuteCall(1, MaxLifeOps)
    \/ FunctionCallCall(1, MaxLifeOps)
    \/ CallbackEnter(1, MaxLifeOps)
    \/ CallbackReturn(1)
    \/ \E rc \in CallCodes : ExecuteReturn(1, rc)
    \/ \E rc \in CallCodes : FunctionCallReturn(1, rc)
    \/ UBCrash

SpecLife == Init /\ [][NextLife]_vars

\* One handle, every name up to MaxNameLen given to the declaring operations.
CStrNames == {n \in AllNames : ~HasNul(n)}

NextIdent ==
    \/ /\ Ready(1) /\ nops[1] < MaxIdentOps
       /\ \E n \in AllNames, op \in DeclareOps :
             \/ DeclareInvalid(1, n, op, MaxIdentOps)
             \/ DeclareNul(1, n, op, MaxIdentOps)
             \/ \E rc \in CallCodes : DeclareCall(1, n, op, rc, MaxIdentOps)
    \/ DeclareReturn(1)
    \/ /\ Ready(1) /\ nops[1] < MaxIdentOps
       /\ \E n \in CStrNames, rc \in CallCodes : InitGlobal(1, n, rc, MaxIdentOps)
    \/ Unwind(1)
    \/ PanicAbort(1)

\* handle 1 after push_int(0)
InitIdent ==
    /\ hs = [h \in Handles |-> [st |-> "live", ptr |-> h]]
    /\ inst = [h \in Handles |-> [dels |-> 0, late |-> 0, runs |-> 0, ud |-> 0, dtor |-> 0]]
    /\ stack = [h \in Handles |-> IF h = 1 THEN <<IntVal(0)>> ELSE << >>]
    /\ globals = [h \in Handles |-> << >>]
    /\ registry = {}
    /\ heap = << >>
    /\ handed = {}
    /\ lock = NoThread
    /\ pc = [h \in Handles |-> "idle"]
    /\ loc = [h \in Handles |-> NoLoc]
    /\ res = [h \in Handles |-> NoRes]
    /\ nops = [h \in Handles |-> 0]
    /\ ub = FALSE
    /\ halted = FALSE

SpecIdent == InitIdent /\ [][NextIdent]_vars


(***************************************************************************)
(* Typed results: StateSuccess, StateError and state_result over the       *)
(* runtime's integer statuses.  The discriminants are the values of the    *)
(* runtime's enum YASL_Error, whose members are numbered in this order.    *)
(***************************************************************************)
MaxStatus == 12
MaxStatusOps == 2

StateSuccess == [Generic |-> 0, ModuleSuccess |-> 1]
StateError ==
    [Generic |-> 2, InitError |-> 3, SyntaxError |-> 4, TypeError |-> 5,
     DivideByZeroError |-> 6, ValueError |-> 7, TooManyVarError |-> 8,
     PlatformNotSupp |-> 9, AssertError |-> 10, StackOverflowError |-> 11]

\* the statuses the runtime's enum defines, and the integers tried
RuntimeStatuses == {StateSuccess[v] : v \in DOMAIN StateSuccess}
                       \cup {StateError[v] : v \in DOMAIN StateError}
Statuses == (0 - 1)..MaxStatus

\* #[derive(FromPrimitive)]: the variant whose discriminant is r, if any
from_i32(E, r) ==
    IF \E v \in DOMAIN E : E[v] = r
    THEN [some |-> TRUE, variant |-> CHOOSE v \in DOMAIN E : E[v] = r]
    ELSE [some |-> FALSE, variant |-> "none"]

\* mutant: every failing status becomes the generic error
state_result_collapsed(r) ==
    IF from_i32(StateSuccess, r).some
    THEN [tag |-> "Ok", variant |-> from_i32(StateSuccess, r).variant]
    ELSE [tag |-> "Err", variant |-> "Generic"]

\* state_result(r: i32): Ok(s) if r is a StateSuccess, else Err(e) if r is a
\* StateError, else panic
state_result_i32(r) ==
    LET s == from_i32(StateSuccess, r)
        e == from_i32(StateError, r)
    IN  IF s.some THEN [tag |-> "Ok", variant |-> s.variant]
        ELSE IF e.some THEN [tag |-> "Err", variant |-> e.variant]
        ELSE [tag |-> "panic", variant |-> "none"]

\* State::compile when YASL_compile returns the integer r
CompileResult(h, r, max) ==
    /\ Ready(h) /\ nops[h] < max
    /\ nops' = [nops EXCEPT ![h] = @ + 1]
    /\ inst' = Touch(h)
    /\ ub' = (ub \/ Stale(h))
    /\ LET t == state_result_i32(r)
       IN  /\ res' = [res EXCEPT ![h] =
                 [op |-> "compile", name |-> << >>, val |-> t.tag,
                  rc |-> "none", dup |-> FALSE, old |-> UndefVal,
                  status |-> r, variant |-> t.variant]]
           /\ pc' = [pc EXCEPT ![h] =
                 IF t.tag = "panic" THEN "panicked" ELSE @]
    /\ UNCHANGED <<hs, stack, globals, registry, heap, handed, lock, loc,
                   halted>>

NextStatus ==
    \/ \E h \in Handles, r \in Statuses : CompileResult(h, r, MaxStatusOps)
    \/ \E h \in Handles : Unwind(h)
    \/ \E h \in Handles : PanicAbort(h)

SpecStatus == InitLive /\ [][NextStatus]_vars

(***************************************************************************)
(* Stack values of every Type, and the runtime calls pop_object uses, as   *)
(* the wrappers' documentation describes them.  A list value carries its   *)
(* items, a table value its <<key, value>> entries in iteration order.     *)
(***************************************************************************)
MaxListLen == 2
MaxEntries == 2
MaxObjOps == 1

BoolVal(b)  == [type |-> "Bool", v |-> b]
FloatVal(f) == [type |-> "Float", v |-> f]
StrVal(t)   == [type |-> "Str", v |-> t]
ListVal(items)    == [type |-> "List", v |-> items]
TableVal(entries) == [type |-> "Table", v |-> entries]
UserPtrVal(a)     == [type |-> "UserPtr", v |-> a]
UserDataVal(a, tag) == [type |-> "UserData", v |-> <<a, tag>>]

Types == {"Undef", "Float", "Int", "Bool", "Str", "List", "Table", "Fn",
          "Closure", "CFn", "UserPtr", "UserData"}

\* YASL_duptop
clone_top(s) == Append(s, Top(s))

\* YASL_len: pops the top and pushes its length
len(s) == Append(PopSeq(s), IntVal(Len(Top(s).v)))

\* mutant: a top of another type is left on the stack
pop_typed_keep(s, type, zero) ==
    IF Top(s).type = type THEN [stack |-> PopSeq(s), val |-> Top(s).v]
    ELSE [stack |-> s, val |-> zero]

\* YASL_pop<type>: the payload if the top has that type, else the zero
\* value; the top is removed either way
pop_typed(s, type, zero) ==
    [stack |-> PopSeq(s),
     val |-> IF Top(s).type = type THEN Top(s).v ELSE zero]

pop_bool(s)  == pop_typed(s, "Bool", FALSE)
pop_int(s)   == pop_typed(s, "Int", 0)
pop_float(s) == pop_typed(s, "Float", "0.0")
\* YASL_popcstr returns null when the top is not a string: None
pop_str(s)   == pop_typed(s, "Str", "None")
\* peek_type() == Type::UserData ? YASL_popuserdata : { pop(); None }
pop_userdata(s) ==
    IF Top(s).type = "UserData"
    THEN [stack |-> PopSeq(s), val |-> Top(s).v[1]]
    ELSE [stack |-> PopSeq(s), val |-> "None"]
pop_userptr(s) ==
    IF Top(s).type = "UserPtr"
    THEN [stack |-> PopSeq(s), val |-> Top(s).v]
    ELSE [stack |-> PopSeq(s), val |-> "None"]

\* mutant: the items are indexed from the end
list_get_reversed(s, n) ==
    IF Top(s).type # "List" THEN [stack |-> s, rc |-> StateError.TypeError]
    ELSE IF n >= Len(Top(s).v) THEN [stack |-> s, rc |-> StateError.ValueError]
    ELSE [stack |-> Append(s, Top(s).v[Len(Top(s).v) - n]),
          rc |-> StateSuccess.Generic]

\* Lists and tables are objects held by reference, so one can be an item of
\* itself (x->push(x) in a script): SelfVal, as an item or an entry's value,
\* stands for the list or table that holds it.
SelfVal == [type |-> "Self", v |-> 0]
Deref(item, holder) == IF item = SelfVal THEN holder ELSE item

\* YASL_listget(n), n >= 0: the list stays on top, item n is pushed above it
list_get(s, n) ==
    IF Top(s).type # "List" THEN [stack |-> s, rc |-> StateError.TypeError]
    ELSE IF n >= Len(Top(s).v) THEN [stack |-> s, rc |-> StateError.ValueError]
    ELSE [stack |-> Append(s, Deref(Top(s).v[n + 1], Top(s))),
          rc |-> StateSuccess.Generic]

\* position of the entry whose key is k, 0 if there is none
KeyIndex(entries, k) ==
    IF \E i \in 1..Len(entries) : entries[i][1] = k
    THEN CHOOSE i \in 1..Len(entries) : entries[i][1] = k
    ELSE 0

\* YASL_tablenext: the index on top is popped; if the table below it has an
\* entry after that index, its key and then its value are pushed.  A call
\* with nothing, or a table that has no such key, below the index has no
\* documented outcome.
table_next(s) ==
    LET index == Top(s)
        s1 == PopSeq(s)
    IN  IF Len(s1) = 0 THEN [more |-> FALSE, stack |-> s1, ub |-> TRUE]
        ELSE IF Top(s1).type # "Table"
        THEN [more |-> FALSE, stack |-> s1, ub |-> FALSE]
        ELSE LET es == Top(s1).v
                 at == IF index = UndefVal THEN 0 ELSE KeyIndex(es, index)
             IN  IF index # UndefVal /\ at = 0
                 THEN [more |-> FALSE, stack |-> s1, ub |-> TRUE]
                 ELSE IF at < Len(es)
                 THEN [more |-> TRUE, ub |-> FALSE,
                       stack |-> s1 \o <<es[at + 1][1],
                                          Deref(es[at + 1][2], Top(s1))>>]
                 ELSE [more |-> FALSE, stack |-> s1, ub |-> FALSE]

(***************************************************************************)
(* Object, HashableObject and pop_object.  An Object::Table is a set of    *)
(* <<key, value>> pairs with one pair per key.                             *)
(***************************************************************************)
Obj(type, v) == [type |-> type, v |-> v]
ObjUndef == Obj("Undef", 0)

\* TryFrom<Object> for HashableObject
Hashable(o) == o.type \in {"Bool", "Int", "Float", "Str", "UserPtr", "Undef"}

\* HashMap::insert
MapInsert(m, k, v) == {e \in m : e[1] # k} \cup {<<k, v>>}

\* depth of nested pop_object calls beyond which the thread's stack is
\* exhausted; every value that does not contain itself nests less deeply
MaxDepth == 3

\* call statistics threaded through one pop_object call, and the number of
\* pop_object calls that are active
NoCalls == [calls |-> 0, trues |-> 0, ub |-> FALSE, depth |-> 0]
Deeper(c) == [c EXCEPT !.depth = @ + 1]
Back(c) == [c EXCEPT !.depth = @ - 1]
ObjOk(s, o, c)  == [tag |-> "Ok", stack |-> s, obj |-> o, err |-> "none", c |-> c]
ObjErr(s, e, c) == [tag |-> "Err", stack |-> s, obj |-> ObjUndef, err |-> e, c |-> c]
ObjPanic(s, c)  == [tag |-> "panic", stack |-> s, obj |-> ObjUndef, err |-> "none", c |-> c]
ObjOverflow(s, c) == [tag |-> "overflow", stack |-> s, obj |-> ObjUndef, err |-> "none", c |-> c]

\* mutant: the expected type is not compared
ExpectedIgnored(stack_type, expected) == FALSE

\* if let Some(object_type) = expected_type { stack_type != object_type }
ExpectedMismatch(stack_type, expected) ==
    expected # "None" /\ stack_type # expected

RECURSIVE pop_object(_, _, _), ListLoop(_, _, _, _, _), TableLoop(_, _, _)

\* for i in 0..n { self.list_get(i)?; list.push(self.pop_object(None)?) }
ListLoop(s, i, n, list, c) ==
    IF i >= n THEN ObjOk(s, Obj("List", list), c)
    ELSE LET g == list_get(s, i)
             t == state_result_i32(g.rc)
         IN  IF t.tag = "Err" THEN ObjErr(g.stack, t.variant, c)
             ELSE IF t.tag = "panic" THEN ObjPanic(g.stack, c)
             ELSE LET r == pop_object(g.stack, "None", Deeper(c))
                  IN  IF r.tag # "Ok" THEN r
                      ELSE ListLoop(r.stack, i + 1, n, Append(list, r.obj),
                                    Back(r.c))

\* while self.table_next() { k = pop_object(None)?.try_into().expect(..);
\*                           v = pop_object(None)?; table.insert(k, v) }
TableLoop(s, table, c) ==
    LET t == table_next(s)
        c1 == [calls |-> c.calls + 1,
               trues |-> c.trues + (IF t.more THEN 1 ELSE 0),
               ub |-> c.ub \/ t.ub, depth |-> c.depth]
    IN  IF ~t.more THEN ObjOk(t.stack, Obj("Table", table), c1)
        ELSE LET k == pop_object(t.stack, "None", Deeper(c1))
             IN  IF k.tag # "Ok" THEN k
                 ELSE IF ~Hashable(k.obj) THEN ObjPanic(k.stack, Back(k.c))
                 ELSE LET v == pop_object(k.stack, "None", k.c)
                      IN  IF v.tag # "Ok" THEN v
                          ELSE TableLoop(v.stack,
                                         MapInsert(table, k.obj, v.obj),
                                         Back(v.c))

\* State::pop_object(expected_type) on the stack s
pop_object(s, expected, c) ==
    LET stack_type == Top(s).type
    IN  IF c.depth > MaxDepth THEN ObjOverflow(s, c)
        ELSE IF ExpectedMismatch(stack_type, expected)
        THEN ObjErr(s, "TypeError", c)
        ELSE CASE stack_type = "Bool" ->
                    ObjOk(pop_bool(s).stack, Obj("Bool", pop_bool(s).val), c)
               [] stack_type = "Int" ->
                    ObjOk(pop_int(s).stack, Obj("Int", pop_int(s).val), c)
               [] stack_type = "Float" ->
                    ObjOk(pop_float(s).stack, Obj("Float", pop_float(s).val), c)
               [] stack_type = "Str" ->
                    ObjOk(pop_str(s).stack,
                          Obj("Str", IF pop_str(s).val = "None" THEN ""
                                     ELSE pop_str(s).val), c)
               [] stack_type = "List" ->
                    LET s1 == len(clone_top(s))
                        n == pop_int(s1).val
                    IN  ListLoop(pop_int(s1).stack, 0, n, << >>, c)
               [] stack_type = "Table" ->
                    TableLoop(Append(s, UndefVal), {}, c)
               [] stack_type = "UserData" ->
                    ObjOk(pop_userdata(s).stack,
                          Obj("UserData", <<pop_userdata(s).val, Top(s).v[2]>>), c)
               [] stack_type = "UserPtr" ->
                    ObjOk(pop_userptr(s).stack,
                          Obj("UserPtr", pop_userptr(s).val), c)
               [] OTHER -> ObjOk(PopSeq(s), ObjUndef, c)

(***************************************************************************)
(* One handle whose stack holds a value of any type on top: pushes, list   *)
(* and table construction, typed pops and pop_object.                      *)
(***************************************************************************)
MaxObjStack == 3

RECURSIVE SeqsUpTo(_, _)
SeqsUpTo(S, n) ==
    IF n = 0 THEN {<< >>}
    ELSE SeqsUpTo(S, n - 1)
           \cup {Append(q, x) : q \in {r \in SeqsUpTo(S, n - 1) : Len(r) = n - 1},
                                x \in S}

ObjScalars == {BoolVal(TRUE), IntVal(1), IntVal(2), FloatVal("1.5"),
               StrVal("a"), UndefVal, UserPtrVal(1),
               UserDataVal(1, "quaternion"), CFnVal}
ElemVals  == {IntVal(1), IntVal(2), StrVal("a"),
              ListVal(<< >>), ListVal(<<IntVal(1)>>)}
KeyVals   == {StrVal("a"), IntVal(1)}
EntryVals == {IntVal(1), IntVal(2), ListVal(<<IntVal(1)>>), TableVal(<< >>),
              UserDataVal(1, "quaternion")}

ListVals == {ListVal(q) : q \in SeqsUpTo(ElemVals, MaxListLen)}
\* entries of a table have pairwise different keys
TableVals ==
    {TableVal(q) : q \in {r \in SeqsUpTo(KeyVals \X EntryVals, MaxEntries) :
                            \A i, j \in 1..Len(r) : r[i][1] = r[j][1] => i = j}}
\* a list and a table that contain themselves
CyclicVals == {ListVal(<<SelfVal>>), ListVal(<<IntVal(1), SelfVal>>),
               TableVal(<<<<StrVal("a"), SelfVal>>>>)}
ObjValues == ObjScalars \cup ListVals \cup TableVals \cup CyclicVals

\* what lies below the top value: nothing, an integer, an empty list (the
\* top is then the item of a list_push), or an empty table or an integer
\* and a key (the top is then the value of a table_set)
ObjBelow == {<< >>, <<IntVal(2)>>, <<ListVal(<< >>)>>,
             <<TableVal(<< >>), StrVal("a")>>, <<IntVal(2), StrVal("a")>>}

\* handle 1 after the pushes that leave one of the values on top
InitObj ==
    /\ hs = [h \in Handles |-> [st |-> "live", ptr |-> h]]
    /\ inst = [h \in Handles |-> [dels |-> 0, late |-> 0, runs |-> 0, ud |-> 0, dtor |-> 0]]
    /\ \E v \in ObjValues, below \in ObjBelow :
          stack = [h \in Handles |-> IF h = 1 THEN Append(below, v) ELSE << >>]
    /\ globals = [h \in Handles |-> << >>]
    /\ registry = {}
    /\ heap = << >>
    /\ handed = {}
    /\ lock = NoThread
    /\ pc = [h \in Handles |-> "idle"]
    /\ loc = [h \in Handles |-> NoLoc]
    /\ res = [h \in Handles |-> NoRes]
    /\ nops = [h \in Handles |-> 0]
    /\ ub = FALSE
    /\ halted = FALSE

\* outcome of an operation on the stack: the stack before it, what it was
\* asked for and what it returned
StackOutcome(op, val, before, expected, obj, err, c) ==
    [op |-> op, name |-> << >>, val |-> val, rc |-> "none", dup |-> FALSE,
     old |-> UndefVal, before |-> before, expected |-> expected, obj |-> obj,
     err |-> err, calls |-> c.calls, trues |-> c.trues]

\* push_bool, push_int, push_float, push_str, push_undef, push_userptr,
\* push_userdata, push_cfunction, push_list, push_table
PushValue(h, v, max) ==
    /\ Ready(h) /\ nops[h] < max
    /\ Len(stack[h]) < MaxObjStack
    /\ stack' = [stack EXCEPT ![h] = Append(@, v)]
    /\ inst' = Touch(h)
    /\ ub' = (ub \/ Stale(h))
    /\ nops' = [nops EXCEPT ![h] = @ + 1]
    /\ res' = [res EXCEPT ![h] =
          StackOutcome("push", "unit", stack[h], "None", v, "none", NoCalls)]
    /\ UNCHANGED <<hs, globals, registry, heap, handed, lock, pc, loc, halted>>

\* State::list_push: the top is appended to the list below it; TypeError if
\* what is below is not a list (the stack is then either as it was or
\* without its top: the documentation does not say)
ListPush(h, max) ==
    /\ Ready(h) /\ nops[h] < max
    /\ Len(stack[h]) >= 2
    /\ LET s == stack[h]
           under == s[Len(s) - 1]
       IN  \/ /\ under.type = "List" /\ Len(under.v) < MaxListLen
              /\ stack' = [stack EXCEPT ![h] =
                    Append(SubSeq(s, 1, Len(s) - 2),
                           ListVal(Append(under.v, Top(s))))]
              /\ res' = [res EXCEPT ![h] =
                    StackOutcome("list_push",
                                 state_result_i32(StateSuccess.Generic).tag,
                                 s, "None", ObjUndef, "none", NoCalls)]
           \/ /\ under.type # "List"
              /\ \E after \in {s, PopSeq(s)} :
                    stack' = [stack EXCEPT ![h] = after]
              /\ res' = [res EXCEPT ![h] =
                    StackOutcome("list_push",
                                 state_result_i32(StateError.TypeError).tag,
                                 s, "None", ObjUndef,
                                 state_result_i32(StateError.TypeError).variant,
                                 NoCalls)]
    /\ inst' = Touch(h)
    /\ ub' = (ub \/ Stale(h))
    /\ nops' = [nops EXCEPT ![h] = @ + 1]
    /\ UNCHANGED <<hs, globals, registry, heap, handed, lock, pc, loc, halted>>

\* the entries after table[key] = value
SetEntry(entries, key, value) ==
    IF KeyIndex(entries, key) # 0
    THEN [entries EXCEPT ![KeyIndex(entries, key)] = <<key, value>>]
    ELSE Append(entries, <<key, value>>)

\* State::table_set: value on top, key below it, the table third; TypeError
\* if the third is not a table or the key cannot be hashed (the stack is
\* then either as it was or without key and value)
TableSet(h, max) ==
    /\ Ready(h) /\ nops[h] < max
    /\ Len(stack[h]) >= 3
    /\ LET s == stack[h]
           value == s[Len(s)]
           key == s[Len(s) - 1]
           table == s[Len(s) - 2]
           good == table.type = "Table" /\ Hashable(key) /\ key # UndefVal
       IN  \/ /\ good
              /\ Len(SetEntry(table.v, key, value)) <= MaxEntries
              /\ stack' = [stack EXCEPT ![h] =
                    Append(SubSeq(s, 1, Len(s) - 3),
                           TableVal(SetEntry(table.v, key, value)))]
              /\ res' = [res EXCEPT ![h] =
                    StackOutcome("table_set",
                                 state_result_i32(StateSuccess.Generic).tag,
                                 s, "None", ObjUndef, "none", NoCalls)]
           \/ /\ ~good
              /\ \E after \in {s, SubSeq(s, 1, Len(s) - 2)} :
                    stack' = [stack EXCEPT ![h] = after]
              /\ res' = [res EXCEPT ![h] =
                    StackOutcome("table_set",
                                 state_result_i32(StateError.TypeError).tag,
                                 s, "None", ObjUndef,
                                 state_result_i32(StateError.TypeError).variant,
                                 NoCalls)]
    /\ inst' = Touch(h)
    /\ ub' = (ub \/ Stale(h))
    /\ nops' = [nops EXCEPT ![h] = @ + 1]
    /\ UNCHANGED <<hs, globals, registry, heap, handed, lock, pc, loc, halted>>

PopKinds == {"Bool", "Int", "Float", "Str", "UserData", "UserPtr"}
PopOf(kind, s) ==
    CASE kind = "Bool" -> pop_bool(s)
      [] kind = "Int" -> pop_int(s)
      [] kind = "Float" -> pop_float(s)
      [] kind = "Str" -> pop_str(s)
      [] kind = "UserData" -> pop_userdata(s)
      [] kind = "UserPtr" -> pop_userptr(s)

\* pop_bool, pop_int, pop_float, pop_str, pop_userdata, pop_userptr
PopTyped(h, kind, max) ==
    /\ Ready(h) /\ nops[h] < max
    /\ Len(stack[h]) > 0
    /\ stack' = [stack EXCEPT ![h] = PopOf(kind, @).stack]
    /\ inst' = Touch(h)
    /\ ub' = (ub \/ Stale(h))
    /\ nops' = [nops EXCEPT ![h] = @ + 1]
    /\ res' = [res EXCEPT ![h] =
          StackOutcome("pop_typed", "value", stack[h], kind,
                       PopOf(kind, stack[h]).val, "none", NoCalls)]
    /\ UNCHANGED <<hs, globals, registry, heap, handed, lock, pc, loc, halted>>

\* State::pop_object(expected_type)
PopObject(h, expected, max) ==
    /\ Ready(h) /\ nops[h] < max
    /\ Len(stack[h]) > 0
    /\ nops' = [nops EXCEPT ![h] = @ + 1]
    /\ inst' = Touch(h)
    /\ LET r == pop_object(stack[h], expected, NoCalls)
       IN  /\ stack' = [stack EXCEPT ![h] = r.stack]
           /\ ub' = (ub \/ Stale(h) \/ r.c.ub)
           /\ pc' = [pc EXCEPT ![h] = IF r.tag = "panic" THEN "panicked" ELSE @]
           /\ halted' = (halted \/ r.tag = "overflow")
           /\ res' = [res EXCEPT ![h] =
                 StackOutcome("pop_object", r.tag, stack[h], expected, r.obj,
                              r.err, r.c)]
    /\ UNCHANGED <<hs, globals, registry, heap, handed, lock, loc>>

Ready1 == Ready(1) /\ nops[1] < MaxObjOps

NextObj ==
    \/ Ready1 /\ \E v \in ObjScalars \cup {ListVal(<< >>), TableVal(<< >>)} :
                    PushValue(1, v, MaxObjOps)
    \/ ListPush(1, MaxObjOps)
    \/ TableSet(1, MaxObjOps)
    \/ Ready1 /\ \E kind \in PopKinds : PopTyped(1, kind, MaxObjOps)
    \/ Ready1 /\ \E expected \in Types \cup {"None"} :
                    PopObject(1, expected, MaxObjOps)
    \/ Unwind(1)
    \/ PanicAbort(1)
    \/ UBCrash

SpecObj == InitObj /\ [][NextObj]_vars

(***************************************************************************)
(* One handle and one global, NAME: values are pushed, bound to the global *)
(* with init_global / init_global_slice, loaded and stored.                *)
(***************************************************************************)
MaxBindOps == 4

\* const NAME: &str = "x";
NAME == <<120>>

NextBind ==
    \/ \E v \in {IntVal(0), IntVal(1)} : Push(1, v, MaxBindOps)
    \/ \E rc \in CallCodes : InitGlobal(1, NAME, rc, MaxBindOps)
    \/ \E rc \in CallCodes :
          DeclareCall(1, NAME, "init_global_slice", rc, MaxBindOps)
    \/ DeclareReturn(1)
    \/ LoadGlobalSlice(1, NAME, MaxBindOps)
    \/ SetGlobalSlice(1, NAME, MaxBindOps)

SpecBind == InitLive /\ [][NextBind]_vars

(***************************************************************************)
(* test_global_mutability: each handle holds the program "x += 1;" and the *)
(* global NAME initialised with push_int and init_global; the program is   *)
(* executed repeatedly and the global is read with load_global_slice and   *)
(* pop_int.                                                                *)
(***************************************************************************)
MaxMutOps == 5

\* const DEFAULT: i64 = 0;
DEFAULT == 0

\* the value the global of handle h is initialised with
InitialX(h) == DEFAULT + (h - 1)

\* mutant: every run starts again from the initial bindings
RunProgramFresh(h) == Bind(globals[h], NAME, IntVal(InitialX(h) + 1))

\* the globals of h after one run of "x += 1;"
RunProgram(h) == Bind(globals[h], NAME, IntVal(globals[h][NAME].v + 1))

\* State::execute on a handle whose program is "x += 1;": the run succeeds
\* when NAME is bound to an integer and fails, changing nothing, otherwise
ExecuteProgram(h, max) ==
    /\ Ready(h) /\ nops[h] < max
    /\ nops' = [nops EXCEPT ![h] = @ + 1]
    /\ ub' = (ub \/ Stale(h))
    /\ IF Bound(h, NAME) /\ globals[h][NAME].type = "Int"
       THEN /\ globals' = [globals EXCEPT ![h] = RunProgram(h)]
            /\ inst' = [Touch(h) EXCEPT ![h].runs = @ + 1]
            /\ res' = [res EXCEPT ![h] =
                  Outcome("execute", << >>, state_result("YASL_SUCCESS"),
                          "YASL_SUCCESS", FALSE, UndefVal, h)]
       ELSE /\ inst' = Touch(h)
            /\ res' = [res EXCEPT ![h] =
                  Outcome("execute", << >>, state_result("YASL_ERROR"),
                          "YASL_ERROR", FALSE, UndefVal, h)]
            /\ UNCHANGED globals
    /\ UNCHANGED <<hs, stack, registry, heap, handed, lock, pc, loc, halted>>

\* each handle after from_source("x += 1;"), push_int, init_global(NAME)
InitMut ==
    /\ hs = [h \in Handles |-> [st |-> "live", ptr |-> h]]
    /\ inst = [h \in Handles |-> [dels |-> 0, late |-> 0, runs |-> 0, ud |-> 0, dtor |-> 0]]
    /\ stack = [h \in Handles |-> << >>]
    /\ globals = [h \in Handles |-> Bind(<< >>, NAME, IntVal(InitialX(h)))]
    /\ registry = {}
    /\ heap = << >>
    /\ handed = {}
    /\ lock = NoThread
    /\ pc = [h \in Handles |-> "idle"]
    /\ loc = [h \in Handles |-> NoLoc]
    /\ res = [h \in Handles |-> NoRes]
    /\ nops = [h \in Handles |-> 0]
    /\ ub = FALSE
    /\ halted = FALSE

NextMut ==
    \/ \E h \in Handles : ExecuteProgram(h, MaxMutOps)
    \/ \E h \in Handles : LoadGlobalSlice(h, NAME, MaxMutOps)
    \/ \E h \in Handles : PopTyped(h, "Int", MaxMutOps)

SpecMut == InitMut /\ [][NextMut]_vars

(***************************************************************************)
(* pop_global_slice: one handle whose global NAME holds a value of any     *)
(* type, with nothing or an integer on its stack.                          *)
(***************************************************************************)
MaxPopGlobalOps == 1
PopGlobalNames == {NAME, <<49>>, <<120, 0>>}

\* self.load_global_slice(name)?; self.pop_object(expected_type)
PopGlobalSlice(h, name, expected, max) ==
    /\ Ready(h) /\ nops[h] < max
    /\ Len(stack[h]) < MaxObjStack
    /\ nops' = [nops EXCEPT ![h] = @ + 1]
    /\ \/ \* load_global_slice: CString::new(name).unwrap()
          /\ HasNul(name)
          /\ res' = [res EXCEPT ![h] =
                [StackOutcome("pop_global_slice", "panic", stack[h], expected,
                              ObjUndef, "none", NoCalls) EXCEPT !.name = name]]
          /\ pc' = [pc EXCEPT ![h] = "panicked"]
          /\ UNCHANGED <<stack, inst, ub, halted>>
       \/ \* YASL_loadglobal fails: `?` returns the error
          /\ ~HasNul(name) /\ ~Bound(h, name)
          /\ res' = [res EXCEPT ![h] =
                [StackOutcome("pop_global_slice", state_result("YASL_ERROR"),
                              stack[h], expected, ObjUndef, "Generic", NoCalls)
                    EXCEPT !.name = name]]
          /\ inst' = Touch(h)
          /\ ub' = (ub \/ Stale(h))
          /\ UNCHANGED <<stack, pc, halted>>
       \/ \* the global's value is pushed, then pop_object runs on it
          /\ ~HasNul(name) /\ Bound(h, name)
          /\ LET r == pop_object(Append(stack[h], globals[h][name]), expected,
                                 NoCalls)
             IN  /\ stack' = [stack EXCEPT ![h] = r.stack]
                 /\ ub' = (ub \/ Stale(h) \/ r.c.ub)
                 /\ pc' = [pc EXCEPT ![h] =
                       IF r.tag = "panic" THEN "panicked" ELSE @]
                 /\ halted' = (halted \/ r.tag = "overflow")
                 /\ res' = [res EXCEPT ![h] =
                       [StackOutcome("pop_global_slice", r.tag, stack[h],
                                     expected, r.obj, r.err, r.c)
                           EXCEPT !.name = name]]
          /\ inst' = Touch(h)
    /\ UNCHANGED <<hs, globals, registry, heap, handed, lock, loc>>

\* handle 1 after a value was pushed and bound to NAME with init_global
InitPopGlobal ==
    /\ hs = [h \in Handles |-> [st |-> "live", ptr |-> h]]
    /\ inst = [h \in Handles |-> [dels |-> 0, late |-> 0, runs |-> 0, ud |-> 0, dtor |-> 0]]
    /\ \E below \in {<< >>, <<IntVal(2)>>} :
          stack = [h \in Handles |-> IF h = 1 THEN below ELSE << >>]
    /\ \E v \in ObjValues :
          globals = [h \in Handles |-> IF h = 1 THEN Bind(<< >>, NAME, v)
                                       ELSE << >>]
    /\ registry = {}
    /\ heap = << >>
    /\ handed = {}
    /\ lock = NoThread
    /\ pc = [h \in Handles |-> "idle"]
    /\ loc = [h \in Handles |-> NoLoc]
    /\ res = [h \in Handles |-> NoRes]
    /\ nops = [h \in Handles |-> 0]
    /\ ub = FALSE
    /\ halted = FALSE

NextPopGlobal ==
    \/ \E n \in PopGlobalNames, expected \in Types \cup {"None"} :
          PopGlobalSlice(1, n, expected, MaxPopGlobalOps)
    \/ Unwind(1)
    \/ PanicAbort(1)

SpecPopGlobal == InitPopGlobal /\ [][NextPopGlobal]_vars

(***************************************************************************)
(* Float keys.  An f64 is modelled by its bit pattern: sign bit, 11-bit     *)
(* biased exponent, fraction.  The exponents are the three classes of the  *)
(* encoding (zero and subnormal, normal, infinity and NaN).                *)
(***************************************************************************)
MaxFrac == 1
MaxFloatOps == 1
ExpZero == 0
ExpBias == 1023
ExpMax == 2047
F64 == [sign : 0..1, exp : {ExpZero, ExpBias, ExpMax}, frac : 0..MaxFrac]
is_nan(f) == f.exp = ExpMax /\ f.frac # 0
IsZero(f) == f.exp = ExpZero /\ f.frac = 0

\* f64 == f64: a NaN equals nothing, the two zeros are equal, every other
\* value equals exactly itself
f64_eq(a, b) ==
    /\ ~is_nan(a) /\ ~is_nan(b)
    /\ a = b \/ (IsZero(a) /\ IsZero(b))

\* f64::to_bits: the 64-bit pattern, as <<sign, exponent, fraction>>
to_bits(f) == <<f.sign, f.exp, f.frac>>

\* #[derive(PartialEq)] on struct HashableF64(f64): the equality of the field
HashableF64_eq(a, b) == f64_eq(a, b)

\* impl Hash for HashableF64: what is fed to the hasher, self.0.to_bits()
HashableF64_hash(f) == <<to_bits(f)>>

\* #[derive(Eq, Hash, PartialEq)] on HashableObject, for two Float keys:
\* the discriminant and the field
HashableObject_eq(a, b) == HashableF64_eq(a, b)
HashableObject_hash(f) == <<"Float">> \o HashableF64_hash(f)

\* two Float keys are compared and hashed, as a HashMap does on insert
CompareKeys(h, a, b, max) ==
    /\ Ready(h) /\ nops[h] < max
    /\ nops' = [nops EXCEPT ![h] = @ + 1]
    /\ res' = [res EXCEPT ![h] =
          [op |-> "key_eq", name |-> << >>, val |-> "unit", rc |-> "none",
           dup |-> FALSE, old |-> UndefVal, a |-> a, b |-> b,
           refl |-> HashableObject_eq(a, a),
           eq |-> HashableObject_eq(a, b),
           hash_a |-> HashableObject_hash(a),
           hash_b |-> HashableObject_hash(b)]]
    /\ UNCHANGED <<hs, inst, stack, globals, registry, heap, handed, lock,
                   pc, loc, ub, halted>>

NextFloat == \E a \in F64, b \in F64 : CompareKeys(1, a, b, MaxFloatOps)

SpecFloat == InitLive /\ [][NextFloat]_vars

(***************************************************************************)
(* Claims                                                                  *)
(***************************************************************************)
DeclaringOps == DeclareOps \cup {"init_global"}
Quiet == \A h \in Handles : pc[h] = "idle"
Retained(x) == [text |-> x.text, addr |-> x.addr] \in registry
ByDeclare == {x \in handed : x.by \in DeclareOps}

\* C1: for every State, YASL_delstate is issued exactly once for its
\* instance, when the State goes out of scope (never while the State is in
\* scope), and no runtime call is issued on the instance after its release.
C1_ReleasedOnceAtScopeEnd ==
    \A h \in Handles :
        /\ hs[h].st = "live" => inst[h].dels = 0
        /\ (hs[h].st = "dropped" /\ hs[h].ptr # NULL) => inst[h].dels = 1
        /\ inst[h].late = 0

\* C2: the State a host callable wraps around the raw pointer is a
\* non-owning view: once a callable has returned, the instance is still
\* unreleased for the rest of execute(), and it is released at most once.
C2_CallbackViewDoesNotRelease ==
    \A h \in Handles :
        /\ pc[h] = "run" => inst[h].dels = 0
        /\ inst[h].dels <= 1

\* C3: a State never holds a null raw handle: from_path and from_source
\* fail explicitly when the runtime's allocation returns null.
C3_HandleNeverNull ==
    \A h \in Handles : hs[h].st = "live" => hs[h].ptr # NULL

\* C4: declare_global, init_global and init_global_slice return
\* InvalidIdentifier exactly for the names that do not match the identifier
\* grammar as a whole (is_valid_identifier is true exactly on the grammar).
C4_InvalidIffNotGrammar ==
    \A h \in Handles :
        (res[h].op \in DeclaringOps /\ ~HasNul(res[h].name)) =>
            (res[h].val = "InvalidIdentifier" <=> ~MatchesGrammar(res[h].name))

\* C5: any two calls of declare_global / init_global_slice with equal name
\* texts hand the same address to the runtime, and once the registry holds
\* the name that address is the stored copy's.
C5_SameTextSameAddress ==
    /\ \A x, y \in ByDeclare : x.text = y.text => x.addr = y.addr
    /\ \A x \in ByDeclare :
          (\E e \in registry : e.text = x.text) => Retained(x)

\* C5 witness: two different calls handed the same name, which is stored
C5_Witness ==
    \E x, y \in ByDeclare :
        /\ x # y /\ x.text = y.text /\ x.addr = y.addr
        /\ Retained(x) /\ Quiet

\* C6: after any sequence of declare_global, init_global_slice and
\* table_set_functions calls, every name address handed to the runtime is
\* storage the registry still holds.
C6_HandedNamesRetained ==
    Quiet => \A x \in handed : Retained(x)

\* C7: the registry's lookup-then-insert is atomic under the lock: at most
\* one thread is between its lookup and its insert, and it holds the lock;
\* the registry has one entry per name; and when no thread is in between,
\* every runtime was handed the address of the registry's entry.
C7_InternAtomic ==
    /\ \A t1, t2 \in Handles :
          (pc[t1] = "insert" /\ pc[t2] = "insert") => t1 = t2
    /\ \A t \in Handles : pc[t] = "insert" => lock = t
    /\ \A e1, e2 \in registry : e1.text = e2.text => e1 = e2
    /\ (\A t \in Handles : pc[t] # "insert") =>
          \A x \in ByDeclare : Retained(x)

\* C7 witness: both threads have interned the same name on their own handle
C7_Witness ==
    /\ Quiet
    /\ \E x, y \in ByDeclare :
          x.h = 1 /\ y.h = 2 /\ x.text = y.text /\ Retained(x) /\ Retained(y)
    /\ Cardinality(registry) = 1

\* C8: declaring a global under a name already declared on the same handle
\* returns a failure and leaves the binding's value unchanged; never Ok.
C8_RedeclareFails ==
    \A h \in Handles :
        (res[h].op \in DeclaringOps /\ res[h].dup) =>
            /\ res[h].val # "Ok"
            /\ globals[h][res[h].name] = res[h].old

\* C9: each global accessor reports a name that is not a well-formed
\* identifier with a different failure value than a well-formed name that
\* has no binding.
Family(op) ==
    IF op \in DeclareOps THEN "declare"
    ELSE IF op = "load_global_slice" THEN "load"
    ELSE IF op = "set_global_slice" THEN "store"
    ELSE "other"
Failed(r) == r.val \in {"Err", "InvalidIdentifier"}
C9_MalformedDistinctFromUnbound ==
    \A h1, h2 \in Handles :
        ( /\ Family(res[h1].op) # "other"
          /\ Family(res[h1].op) = Family(res[h2].op)
          /\ Failed(res[h1]) /\ Failed(res[h2])
          /\ ~res[h1].dup /\ ~res[h2].dup
          /\ ~MatchesGrammar(res[h1].name)
          /\ MatchesGrammar(res[h2].name) )
        => <<res[h1].val, res[h1].rc>> # <<res[h2].val, res[h2].rc>>

\* C10: an operation whose runtime call returned a failing status does not
\* report success (Ok, unit, or a result count).
C10_FailingStatusSurfaced ==
    \A h \in Handles :
        (res[h].rc \notin SuccessCodes \cup {"none"}) =>
            res[h].val \notin {"Ok", "unit", "usize"}

\* C11: for each of the twelve statuses the runtime defines, state_result
\* returns a typed result without aborting: Ok of the success variant or Err
\* of the error variant whose discriminant is that status; two different
\* statuses never give the same result.
Typed(r) == "status" \in DOMAIN r /\ r.status \in RuntimeStatuses
RECURSIVE Materialized(_)
Materialized(x) ==
    CASE x.type \in {"Bool", "Int", "Float", "Str", "UserPtr", "UserData"} ->
            Obj(x.type, x.v)
      [] x.type = "List" ->
            Obj("List", [i \in 1..Len(x.v) |-> Materialized(x.v[i])])
      [] x.type = "Table" ->
            Obj("Table", {<<Materialized(x.v[i][1]), Materialized(x.v[i][2])>> :
                             i \in 1..Len(x.v)})
      [] OTHER -> ObjUndef

\* the last operation of h was pop_object, on a stack whose top had this type
Popped(h, type) ==
    /\ res[h].op = "pop_object"
    /\ Top(res[h].before).type = type
Scalar(x) == x.type \notin {"List", "Table", "Self"}

\* C12: when pop_object returns for a stack whose top is a list, the stack
\* is the original stack with exactly that list removed.
C12_ListRemoved ==
    \A h \in Handles :
        (Popped(h, "List") /\ res[h].val = "Ok") =>
            stack[h] = PopSeq(res[h].before)

\* C13: pop_object on a table with N entries calls table_next N+1 times, N
\* of them returning true, and returns a mapping with N entries.
C13_TableIteration ==
    \A h \in Handles :
        (Popped(h, "Table") /\ res[h].val = "Ok") =>
            LET N == Len(Top(res[h].before).v)
            IN  /\ res[h].calls = N + 1
                /\ res[h].trues = N
                /\ Cardinality(res[h].obj.v) = N

\* C14: every entry of the mapping pop_object returns for a table has the
\* materialization of a table key as its key and the materialization of
\* that key's value as its value.
C14_KeyThenValue ==
    \A h \in Handles :
        (Popped(h, "Table") /\ res[h].val = "Ok") =>
            \A e \in res[h].obj.v :
                \E i \in 1..Len(Top(res[h].before).v) :
                    /\ e[1] = Materialized(Top(res[h].before).v[i][1])
                    /\ e[2] = Materialized(Top(res[h].before).v[i][2])

\* C15: pop_object on a list of n scalar items returns Object::List of
\* length n whose i-th item is the materialization of the list's i-th item.
ScalarList(x) == x.type = "List" /\ \A i \in 1..Len(x.v) : Scalar(x.v[i])
C15_ListInOrder ==
    \A h \in Handles :
        ( /\ Popped(h, "List")
          /\ ScalarList(Top(res[h].before))
          /\ res[h].expected \in {"None", "List"} ) =>
            /\ res[h].val = "Ok"
            /\ res[h].obj.type = "List"
            /\ Len(res[h].obj.v) = Len(Top(res[h].before).v)
            /\ \A i \in 1..Len(res[h].obj.v) :
                  res[h].obj.v[i] = Materialized(Top(res[h].before).v[i])

\* C15 witness: a list of two different scalar items has been popped
C15_Witness ==
    /\ Popped(1, "List") /\ ScalarList(Top(res[1].before))
    /\ Len(Top(res[1].before).v) = 2
    /\ Top(res[1].before).v[1] # Top(res[1].before).v[2]
    /\ res[1].val = "Ok"

\* C16: pop_object(None) on a stack whose top is a bool, int, float, string,
\* undef, list, table, userdata or userptr returns the host value equal to
\* the one that was pushed.
HostKinds == {"Bool", "Int", "Float", "Str", "Undef", "List", "Table",
              "UserData", "UserPtr"}
C16_RoundTrip ==
    \A h \in Handles :
        ( /\ res[h].op = "pop_object"
          /\ res[h].expected = "None"
          /\ Top(res[h].before).type \in HostKinds ) =>
            /\ res[h].val = "Ok"
            /\ res[h].obj = Materialized(Top(res[h].before))

\* C17: pop_object(Some(T)) on a top of another type returns Err(TypeError)
\* and leaves the stack exactly as it was.
C17_MismatchConsumesNothing ==
    \A h \in Handles :
        ( /\ res[h].op = "pop_object"
          /\ res[h].expected # "None"
          /\ Top(res[h].before).type # res[h].expected ) =>
            /\ res[h].val = "Err"
            /\ res[h].err = "TypeError"
            /\ stack[h] = res[h].before

\* C17 witness: a list was asked for as an integer, above another value
C17_Witness ==
    /\ Popped(1, "List") /\ res[1].expected = "Int"
    /\ Len(res[1].before) = 2
    /\ res[1].val = "Err"

\* C18: a typed pop removes exactly the top value whatever its type, and
\* returns the payload when the type matches, the zero value when not.
ZeroOf(kind) ==
    CASE kind = "Bool" -> FALSE
      [] kind = "Int" -> 0
      [] kind = "Float" -> "0.0"
      [] OTHER -> "None"
PayloadOf(x) == IF x.type = "UserData" THEN x.v[1] ELSE x.v
InitGlobalStep(h) ==
    /\ nops'[h] = nops[h] + 1
    /\ \/ /\ pc'[h] = "idle"
          /\ res'[h].op = "init_global" /\ res'[h].val = "Ok"
          /\ res'[h].rc \in SuccessCodes /\ ~res'[h].dup
          /\ res'[h].name = NAME
       \/ /\ pc'[h] = "insert" /\ loc'[h].op = "init_global_slice"
          /\ loc'[h].rc \in SuccessCodes /\ ~loc'[h].dup
          /\ loc'[h].name = NAME
AccessStep(h, op) ==
    /\ nops'[h] = nops[h] + 1 /\ pc'[h] = "idle"
    /\ res'[h].op = op /\ res'[h].val = "Ok" /\ res'[h].name = NAME
C20_GlobalPersists ==
    \A h \in Handles :
        /\ Bound(h, NAME)
        /\ globals[h][NAME] = IntVal(InitialX(h) + inst[h].runs)
        /\ (res[h].op = "load_global_slice" /\ res[h].val = "Ok") =>
              Top(stack[h]) = IntVal(InitialX(h) + inst[h].runs)
        /\ (res[h].op = "pop_typed") =>
              /\ stack[h] = PopSeq(res[h].before)
              /\ \E j \in 0..inst[h].runs : res[h].obj = InitialX(h) + j
        /\ \A i \in 1..Len(stack[h]) :
              \E j \in 0..inst[h].runs : stack[h][i] = IntVal(InitialX(h) + j)

\* C20 witness: two runs and two reads, then a load that pushed v + 2
C20_Witness ==
    /\ inst[1].runs = 2 /\ nops[1] = 5
    /\ res[1].op = "load_global_slice" /\ res[1].val = "Ok"
    /\ Top(stack[1]) = IntVal(DEFAULT + 2)

\* C21: for the userdata objects pushed with a destructor, the destructor
\* is never invoked more often than there are objects, and once the handle
\* has been dropped it has been invoked exactly once for each.
C21_DestructorOnce ==
    \A h \in Handles :
        /\ inst[h].dtor <= inst[h].ud
        /\ (hs[h].st = "dropped" /\ hs[h].ptr # NULL) =>
              inst[h].dtor = inst[h].ud

\* C22: for every pair of Float keys compared, the first equals itself,
\* equal keys have equal hashes, and the keys are equal exactly when their
\* bit patterns are equal.
C22_FloatKeyLaws ==
    \A h \in Handles :
        res[h].op = "key_eq" =>
            /\ res[h].refl
            /\ res[h].eq => res[h].hash_a = res[h].hash_b
            /\ res[h].eq <=> to_bits(res[h].a) = to_bits(res[h].b)

\* C23: pop_object on a table, all of whose keys can be used as keys of the
\* mapping, does not abort, and when a value of the table is a list, a table
\* or a userdata it returns the mapping from each key to its value.
Composite(x) == x.type \in {"List", "Table", "UserData"}
C23_CompositeValues ==
    \A h \in Handles :
        ( /\ Popped(h, "Table")
          /\ res[h].expected \in {"None", "Table"}
          /\ \A i \in 1..Len(Top(res[h].before).v) :
                Hashable(Materialized(Top(res[h].before).v[i][1])) ) =>
            /\ res[h].val # "panic"
            /\ (\E i \in 1..Len(Top(res[h].before).v) :
                    Composite(Top(res[h].before).v[i][2])) =>
                  /\ res[h].val = "Ok"
                  /\ res[h].obj = Materialized(Top(res[h].before))

\* C24: pop_object returns for every value on top of the stack, a list or
\* table that contains itself included: it never exhausts the thread's
\* stack by unbounded recursion.
C24_PopObjectTerminates ==
    \A h \in Handles :
        res[h].op = "pop_object" => res[h].val # "overflow"

\* C25: a call of a name-taking operation with a name that has an interior
\* NUL byte ends in a panic; it never returns a value such as
\* InvalidIdentifier.
C25_NulPanics ==
    \A h \in Handles :
        (res[h].op # "none" /\ HasNul(res[h].name)) => res[h].val = "panic"

\* C26: when pop_global_slice returns, with Ok or with an error, the stack
\* is the stack it was called on: the loaded global is not left on it.
C26_PopGlobalLeavesStack ==
    \A h \in Handles :
        (res[h].op = "pop_global_slice" /\ res[h].val \in {"Ok", "Err"}) =>
            stack[h] = res[h].before

\* impl From<&Object> for Type: the variant's Type
TypeOfObject(o) ==
    CASE o.type = "Bool" -> "Bool"
      [] o.type = "Int" -> "Int"
      [] o.type = "Float" -> "Float"
      [] o.type = "Str" -> "Str"
      [] o.type = "List" -> "List"
      [] o.type = "Table" -> "Table"
      [] o.type = "UserData" -> "UserData"
      [] o.type = "UserPtr" -> "UserPtr"
      [] o.type = "Undef" -> "Undef"

\* C27: when pop_object(expected) returns Ok(o), the Type of o is the type
\* the top of the stack had before the call, and is T when expected is
\* Some(T).
C27_TagPreserved ==
    \A h \in Handles :
        (res[h].op = "pop_object" /\ res[h].val = "Ok") =>
            /\ TypeOfObject(res[h].obj) = Top(res[h].before).type
            /\ res[h].expected # "None" =>
                  TypeOfObject(res[h].obj) = res[h].expected

\* C28: a step in which declare_global, init_global or init_global_slice
\* returns InvalidIdentifier changes nothing else: the stack, the globals,
\* the registry and its lock, the strings handed to the runtime and the
\* instance are as before, and no runtime call was made.
RejectStep(h) ==
    /\ nops'[h] = nops[h] + 1 /\ pc[h] = "idle" /\ pc'[h] = "idle"
    /\ res'[h].op \in DeclaringOps
    /\ res'[h].val = "InvalidIdentifier"
C28_RejectChangesNothing ==
    [][\A h \in Handles :
         RejectStep(h) =>
             /\ stack' = stack /\ globals' = globals
             /\ registry' = registry /\ heap' = heap /\ handed' = handed
             /\ lock' = lock /\ inst' = inst /\ hs' = hs /\ ub' = ub]_vars

\* C28 witness: with a value on the stack, init_global_slice has rejected a
\* name, and the value is still there and no global exists
C28_Witness ==
    /\ res[1].op = "init_global_slice" /\ res[1].val = "InvalidIdentifier"
    /\ res[1].name = <<49>>
    /\ stack[1] = <<IntVal(1)>> /\ globals[1] = << >> /\ registry = {}

\* C29: pop_object on a list whose items may themselves be lists returns
\* Object::List whose i-th item is the materialization of the list's i-th
\* item: every iteration of the loop reads item i of the list being
\* materialized, also after an item that was a list.
C29_NestedListInOrder ==
    \A h \in Handles :
        ( /\ Popped(h, "List")
          /\ Top(res[h].before) \in ListVals
          /\ res[h].expected \in {"None", "List"} ) =>
            /\ res[h].val = "Ok"
            /\ Len(res[h].obj.v) = Len(Top(res[h].before).v)
            /\ \A i \in 1..Len(Top(res[h].before).v) :
                  res[h].obj.v[i] = Materialized(Top(res[h].before).v[i])

\* C30: the registry lock is held only by a thread inside a declaring
\* operation, which took it once and releases it before it returns; and
\* every interning call that has started completes, unless the process has
\* aborted.
Interning(h) == pc[h] \in {"insert", "tsf"}
C30_LockLive ==
    /\ [](\A h \in Handles : lock = h <=> pc[h] = "insert")
    /\ \A h \in Handles : Interning(h) ~> (pc[h] = "idle" \/ halted)

\* C30 witness: one thread is inside table_set_functions, waiting for the
\* lock that the other thread holds inside a declaring operation
C30_Witness ==
    /\ pc[1] = "tsf" /\ Len(loc[1].ptrs) < Len(loc[1].fns)
    /\ pc[2] = "insert" /\ lock = 2

====
